---- MODULE Spec2Model ----
(***************************************************************************)
(* Model of the two polling scripts of the repository:                     *)
(*   binance_list_open.js      the Entry Scanner, variables sc_...        *)
(*   binance_support_close.js  the Position Manager, variables mg_...     *)
(* and of the exchange account they both talk to, ex_pos.                 *)
(*                                                                         *)
(* Units.  Prices and money are integers in hundredths of a USDT, so the   *)
(* literal 1 in `price < 1` is 100 and `profit = 0.03` is 3 per 100.  The  *)
(* sampled wallets are multiples of 100, for which wallet * 0.03 is exact. *)
(* RSI values are integers.  A symbol is a number: 0 is 'USDCUSDT', the    *)
(* symbols 1..NumSymbols are the other perpetual contracts.                *)
(*                                                                         *)
(* LONG and SHORT are the switches of binance_list_open.js line 22.  They  *)
(* are set once, before the loop starts; the model draws them in Init.     *)
(***************************************************************************)
EXTENDS Integers, Sequences, FiniteSets, TLC

\* ------------------------------------------------------------ bounds
NumSymbols == 2
MaxInitPositions == 2
MaxQty == 60
MaxOpenPositions == 2

\* ------------------------------------------------- program constants
MAX_ACTIVE_POSITIONS == 1
POSITION_USDT == 5
SELL_RSI_THRESHOLD == 80
BUY_RSI_THRESHOLD == 10
LEVERAGE == 3
AMOUNT_PER_POSITION == POSITION_USDT * LEVERAGE
PriceCeiling == 100
profit == 3
supportPerPosition == 10
USDCUSDT == 0
EXCLUDED_SYMBOLS == {USDCUSDT}
excludedSymbols == {}

\* ------------------------------------------------------ sample inputs
RsiSamples == {0, 5, 10, 50, 85}
PriceSamples == {50, 100}
BalanceSamples == {0, 500}
ProfitSamples == {-100, 0, 290, 300, 350}
Absent == [present |-> FALSE, v |-> 0]
Field(n) == [present |-> TRUE, v |-> n]
WalletSamples == {Absent, Field(0), Field(10000)}
InitAmounts == {30}
\* fetchFundingRate: null when the fetch fails, else the rate in hundredths of
\* a percent.
NoFunding == [fetched |-> FALSE, rate |-> 0]
Funding(r) == [fetched |-> TRUE, rate |-> r]
FundingSamples == {NoFunding, Funding(-1), Funding(1)}
TopUpBalanceSamples == {500, 2000}

\* ------------------------------------------------------------- state
VARIABLES
    LONG, SHORT,
    ex_pos,
    sc_pc, sc_queue, sc_symbol, sc_rsi, sc_price, sc_branch,
    sc_len, sc_active, sc_oprice, sc_order, sc_outcome, sc_msg, sc_last,
    mg_pc, mg_list, mg_quote, mg_closeReq, mg_order, mg_outcome, mg_msg,
    sc_seen, mg_seen,
    mg_topup, ex_marginReq

cfgVars == <<LONG, SHORT>>
scItem == <<sc_symbol, sc_rsi, sc_price, sc_branch, sc_len, sc_active,
            sc_oprice, sc_order, sc_outcome, sc_msg>>
scVars == <<sc_pc, sc_queue, sc_last, scItem>>
mgVars == <<mg_pc, mg_list, mg_quote, mg_closeReq, mg_order, mg_outcome, mg_msg>>
\* History variables: what the fetches of the current item returned that the
\* scripts only print.  They are recorded under ObsSpec alone.
obsVars == <<sc_seen, mg_seen>>
\* The last run of addMarginToPosition and the last margin request the
\* exchange received.
marginVars == <<mg_topup, ex_marginReq>>
vars == <<cfgVars, obsVars, marginVars, ex_pos, scVars, mgVars>>

\* ---------------------------------------------------------- exchange
SideNames == <<"LONG", "SHORT", "BOTH">>
AllSymbols == 0 .. NumSymbols
Slots == AllSymbols \X {"LONG", "SHORT", "BOTH"}

\* The records of futuresPositionRisk(), in the order the exchange lists them.
SlotSeq ==
    [k \in 1 .. (3 * (NumSymbols + 1)) |->
        <<(k - 1) \div 3, SideNames[((k - 1) % 3) + 1]>>]

ActiveSlots(pos) == {s \in Slots : pos[s] # 0}
ActiveCount(pos) == Cardinality(ActiveSlots(pos))

NoOrder == [symbol |-> -1, side |-> "none", qty |-> 0, positionSide |-> "none"]

IsBuy(side) == side \in {"buy", "Buy", "BUY"}

Min(a, b) == IF a < b THEN a ELSE b
Max(a, b) == IF a > b THEN a ELSE b

\* The size of a position after a market order on it is filled.
NewAmount(cur, o) ==
    CASE o.positionSide = "LONG" /\ IsBuy(o.side) -> cur + o.qty
      [] o.positionSide = "LONG" -> Max(0, cur - o.qty)
      [] o.positionSide = "SHORT" /\ IsBuy(o.side) -> Min(0, cur + o.qty)
      [] o.positionSide = "SHORT" -> cur - o.qty
      [] IsBuy(o.side) -> cur + o.qty
      [] OTHER -> cur - o.qty

\* A market order the exchange can fill: in hedge mode a BUY on the SHORT side
\* and a SELL on the LONG side only reduce an existing position.
Fillable(pos, o) ==
    LET cur == pos[<<o.symbol, o.positionSide>>] IN
    /\ o.qty > 0
    /\ (o.positionSide = "LONG" /\ ~IsBuy(o.side)) => cur > 0
    /\ (o.positionSide = "SHORT" /\ IsBuy(o.side)) => cur < 0
    /\ NewAmount(cur, o) <= MaxQty
    /\ NewAmount(cur, o) >= -MaxQty

Filled(pos, o) ==
    LET s == <<o.symbol, o.positionSide>> IN
    [pos EXCEPT ![s] = NewAmount(pos[s], o)]

\* ----------------------------------------------------- JS arithmetic
NaN == [nan |-> TRUE, v |-> 0]
Num(n) == [nan |-> FALSE, v |-> n]
\* Mutant: a missing field read as 0.
Number_AbsentZero(f) == Num(f.v)

Number(f) == IF f.present THEN Num(f.v) ELSE NaN
TimesProfit(a) == IF a.nan THEN NaN ELSE Num((a.v * profit) \div 100)
GreaterEq(a, b) == ~a.nan /\ ~b.nan /\ a.v >= b.v
Less(a, b) == ~a.nan /\ ~b.nan /\ a.v < b.v
TimesSupport(a) == IF a.nan THEN NaN ELSE Num((a.v * supportPerPosition) \div 100)

\* ------------------------------------------------------ observations
\* What an iteration saw: the funding rate it fetched and, for the scanner,
\* whether the fetch of alreadyOpenedFuturesPosition succeeded.
NotSeen == [seen |-> FALSE, fundingRate |-> NoFunding, fetched |-> FALSE]
Seen(fundingRate, fetched) ==
    [seen |-> TRUE, fundingRate |-> fundingRate, fetched |-> fetched]

\* ------------------------------------------------------ error handling
\* Mutant: no try/catch around the loop body; the error reaches the outer catch.
ItemCatch_Outer(item, outer) == outer

\* Where an error thrown inside the body of the for loop lands: in the catch of
\* that iteration, after which the loop goes on (item), not in the catch around
\* the whole cycle (outer).
ItemCatch(item, outer) == item

\* ----------------------------------------------------- notifications
\* The message last handed to sendTelegramMessage and whether bot.sendMessage
\* delivered it.
NoMessage == [text |-> "none", delivered |-> FALSE]
Message(text, delivered) == [text |-> text, delivered |-> delivered]

\* Mutant: the failure of bot.sendMessage rethrown to the caller.
sendTelegramMessage_Rethrow(delivered) ==
    IF delivered THEN "returned" ELSE "thrown"

\* sendTelegramMessage: its try/catch logs a failure of bot.sendMessage and
\* returns in both cases.
sendTelegramMessage(delivered) == "returned"

\* Mutant: the success message sent whatever the order call did.
Announced_Always(filled) == TRUE

\* The success message follows the awaited order call: it is sent when the
\* call returned, and a rejection throws past it.
Announced(filled) == filled

\* What the caller of sendTelegramMessage goes on to report: its own result
\* when the call returned, the error when it threw.
AfterMessage(call, result) == IF call = "thrown" THEN "error" ELSE result

\* ---------------------------------------------------- Entry Scanner
\* Mutant: the long bound made strict.
EntryBranch_StrictBuy(rsi, price) ==
    IF rsi >= SELL_RSI_THRESHOLD /\ price < PriceCeiling /\ SHORT THEN "sell"
    ELSE IF rsi < BUY_RSI_THRESHOLD /\ rsi > 0 /\ price < PriceCeiling /\ LONG
         THEN "buy"
         ELSE "none"

\* Mutant: the rsi > 0 guard dropped.
EntryBranch_NoZeroGuard(rsi, price) ==
    IF rsi >= SELL_RSI_THRESHOLD /\ price < PriceCeiling /\ SHORT THEN "sell"
    ELSE IF rsi <= BUY_RSI_THRESHOLD /\ price < PriceCeiling /\ LONG
         THEN "buy"
         ELSE "none"

\* Mutant: the price ceiling made inclusive.
EntryBranch_CeilingInclusive(rsi, price) ==
    IF rsi >= SELL_RSI_THRESHOLD /\ price <= PriceCeiling /\ SHORT THEN "sell"
    ELSE IF rsi <= BUY_RSI_THRESHOLD /\ rsi > 0 /\ price <= PriceCeiling /\ LONG
         THEN "buy"
         ELSE "none"

EntryBranch(rsi, price) ==
    IF rsi >= SELL_RSI_THRESHOLD /\ price < PriceCeiling /\ SHORT THEN "sell"
    ELSE IF rsi <= BUY_RSI_THRESHOLD /\ rsi > 0 /\ price < PriceCeiling /\ LONG
         THEN "buy"
         ELSE "none"

\* Mutant: the limit test made strict.
MaxReached_Strict(len) == len > MAX_ACTIVE_POSITIONS

\* Mutant: the limit test dropped.
MaxReached_Off(len) == FALSE

MaxReached(len) == len >= MAX_ACTIVE_POSITIONS

PositionSideOf(side) == IF side = "Buy" THEN "LONG" ELSE "SHORT"

Quantity(price) == (AMOUNT_PER_POSITION * 100) \div price

AlreadyOpened(pos, symbol) ==
    \E s \in Slots : s[1] = symbol /\ pos[s] # 0

ItemReset ==
    /\ sc_rsi' = 0
    /\ sc_price' = 0
    /\ sc_branch' = "none"
    /\ sc_len' = -1
    /\ sc_active' = -1
    /\ sc_oprice' = 0
    /\ sc_order' = NoOrder
    /\ sc_outcome' = "none"
    /\ sc_msg' = NoMessage

\* getBalance() and futuresExchangeInfo() at the top of a cycle succeed.
ScStartCycle ==
    /\ sc_pc = "cycle"
    /\ sc_pc' = "next"
    /\ sc_queue' = [i \in 1 .. (NumSymbols + 1) |-> i - 1]
    /\ sc_last' = "started"
    /\ UNCHANGED <<cfgVars, obsVars, marginVars, ex_pos, scItem, mgVars>>

\* One of them throws: the outer catch logs and the while loop starts over.
ScCycleFail ==
    /\ sc_pc = "cycle"
    /\ sc_last' = "error"
    /\ UNCHANGED <<cfgVars, obsVars, marginVars, ex_pos, sc_pc, sc_queue, scItem, mgVars>>

\* for (const symbol of symbols): the next symbol, or the sleep after the last.
ScNext ==
    /\ sc_pc = "next"
    /\ IF sc_queue = <<>>
       THEN /\ sc_pc' = "sleep60"
            /\ UNCHANGED <<sc_queue, sc_symbol>>
       ELSE /\ sc_queue' = Tail(sc_queue)
            /\ sc_symbol' = Head(sc_queue)
            /\ sc_pc' = IF Head(sc_queue) \in EXCLUDED_SYMBOLS THEN "next" ELSE "fetch"
    /\ ItemReset
    /\ UNCHANGED <<cfgVars, obsVars, marginVars, ex_pos, sc_last, mgVars>>

ScSleep60 ==
    /\ sc_pc = "sleep60"
    /\ sc_pc' = "cycle"
    /\ sc_last' = "slept"
    /\ UNCHANGED <<cfgVars, obsVars, marginVars, ex_pos, sc_queue, scItem, mgVars>>

\* calculateRSI, fetchFundingRate, fetchKlines, getMarketPrice, setLeverage and
\* setMarginMode all return.
ScFetch ==
    /\ sc_pc = "fetch"
    /\ \E rsi \in RsiSamples, price \in PriceSamples :
        /\ sc_rsi' = rsi
        /\ sc_price' = price
    /\ sc_pc' = "already"
    /\ UNCHANGED <<cfgVars, obsVars, marginVars, ex_pos, sc_queue, sc_last, sc_symbol, sc_branch,
                   sc_len, sc_active, sc_oprice, sc_order, sc_outcome, sc_msg,
                   mgVars>>

\* calculateRSI, fetchKlines or getMarketPrice throws: the item's catch.
ScFetchFail ==
    /\ sc_pc = "fetch"
    /\ sc_outcome' = "error"
    /\ sc_pc' = ItemCatch("next", "cycle")
    /\ UNCHANGED <<cfgVars, obsVars, marginVars, ex_pos, sc_queue, sc_last, sc_symbol, sc_rsi, sc_price,
                   sc_branch, sc_len, sc_active, sc_oprice, sc_order, sc_msg,
                   mgVars>>

\* Mutant: a short entry only with a positive funding rate, a long entry only
\* with a negative one.
EntryDecision_FundingGated(rsi, price, fundingRate) ==
    IF /\ EntryBranch(rsi, price) = "sell"
       /\ fundingRate.fetched /\ fundingRate.rate > 0 THEN "sell"
    ELSE IF /\ EntryBranch(rsi, price) = "buy"
            /\ fundingRate.fetched /\ fundingRate.rate < 0 THEN "buy"
         ELSE "none"

\* The if / else if of main: fundingRate is in scope and goes into the message
\* text, the branch taken is that of the RSI test.
EntryDecision(rsi, price, fundingRate) == EntryBranch(rsi, price)

\* alreadyOpenedFuturesPosition (false when its fetch fails), then the RSI test;
\* a chosen entry is announced with sendTelegramMessage before openPosition.
\* fundingRate, fetched with the RSI, is first used here, for the message: the
\* model draws it here (null when its fetch failed).
ScDecideWith(fetched, fundingRate) ==
    /\ sc_pc = "already"
    /\ \E delivered \in BOOLEAN :
        IF fetched /\ AlreadyOpened(ex_pos, sc_symbol)
        THEN /\ sc_outcome' = "already"
             /\ sc_pc' = "next"
             /\ UNCHANGED <<sc_branch, sc_msg>>
        ELSE /\ sc_branch' = EntryDecision(sc_rsi, sc_price, fundingRate)
             /\ IF EntryDecision(sc_rsi, sc_price, fundingRate) = "none"
                THEN /\ sc_outcome' = "noaction"
                     /\ sc_pc' = "sleep500"
                     /\ UNCHANGED sc_msg
                ELSE /\ sc_msg' = Message("signal", delivered)
                     /\ sc_outcome' =
                            AfterMessage(sendTelegramMessage(delivered), "none")
                     /\ sc_pc' = IF sendTelegramMessage(delivered) = "thrown"
                                 THEN "next" ELSE "check"
    /\ UNCHANGED <<cfgVars, marginVars, ex_pos, sc_queue, sc_last, sc_symbol, sc_rsi, sc_price,
                   sc_len, sc_active, sc_oprice, sc_order, mgVars>>

ScDecide ==
    /\ \E fetched \in BOOLEAN, fundingRate \in FundingSamples :
            ScDecideWith(fetched, fundingRate)
    /\ UNCHANGED obsVars

\* openPosition: futuresPositionRisk() and the test of positionData.length.
\* The exchange lists the non-zero positions, with or without the empty ones.
ScCheck ==
    /\ sc_pc = "check"
    /\ \E listsEmpty \in BOOLEAN, delivered \in BOOLEAN :
        LET len == IF listsEmpty THEN Len(SlotSeq) ELSE ActiveCount(ex_pos) IN
        /\ sc_len' = len
        /\ sc_active' = ActiveCount(ex_pos)
        /\ IF MaxReached(len)
           THEN /\ sc_msg' = Message("maxreached", delivered)
                /\ sc_outcome' =
                       AfterMessage(sendTelegramMessage(delivered), "maxreached")
                /\ sc_pc' = "sleep500"
           ELSE /\ sc_outcome' = "none"
                /\ sc_pc' = "balance"
                /\ UNCHANGED sc_msg
    /\ UNCHANGED <<cfgVars, obsVars, marginVars, ex_pos, sc_queue, sc_last, sc_symbol, sc_rsi, sc_price,
                   sc_branch, sc_oprice, sc_order, mgVars>>

\* A fetch inside openPosition throws: its own catch logs and returns undefined.
ScOpenFail ==
    /\ sc_pc \in {"check", "balance", "price"}
    /\ sc_outcome' = "error"
    /\ sc_pc' = "sleep500"
    /\ UNCHANGED <<cfgVars, obsVars, marginVars, ex_pos, sc_queue, sc_last, sc_symbol, sc_rsi, sc_price,
                   sc_branch, sc_len, sc_active, sc_oprice, sc_order, sc_msg,
                   mgVars>>

ScBalance ==
    /\ sc_pc = "balance"
    /\ \E balance \in BalanceSamples, delivered \in BOOLEAN :
        IF balance < POSITION_USDT * 100
        THEN /\ sc_msg' = Message("insufficient", delivered)
             /\ sc_outcome' =
                    AfterMessage(sendTelegramMessage(delivered), "insufficient")
             /\ sc_pc' = "sleep500"
        ELSE /\ sc_outcome' = "none"
             /\ sc_pc' = "price"
             /\ UNCHANGED sc_msg
    /\ UNCHANGED <<cfgVars, obsVars, marginVars, ex_pos, sc_queue, sc_last, sc_symbol, sc_rsi, sc_price,
                   sc_branch, sc_len, sc_active, sc_oprice, sc_order, mgVars>>

ScPrice ==
    /\ sc_pc = "price"
    /\ \E price \in PriceSamples : sc_oprice' = price
    /\ sc_pc' = "order"
    /\ UNCHANGED <<cfgVars, obsVars, marginVars, ex_pos, sc_queue, sc_last, sc_symbol, sc_rsi, sc_price,
                   sc_branch, sc_len, sc_active, sc_order, sc_outcome, sc_msg,
                   mgVars>>

ScOrderRequest ==
    [symbol |-> sc_symbol, side |-> sc_branch, qty |-> Quantity(sc_oprice),
     positionSide |-> PositionSideOf(sc_branch)]

\* binance.createOrder: the order is sent; the exchange fills it or rejects it.
\* A filled order is announced ('Position opened') and returned; a rejection
\* throws past the announcement into openPosition's catch.
ScOrder ==
    /\ sc_pc = "order"
    /\ sc_order' = ScOrderRequest
    /\ \E accepted \in BOOLEAN, delivered \in BOOLEAN :
        LET filled == accepted /\ Fillable(ex_pos, ScOrderRequest) IN
        /\ ex_pos' = IF filled THEN Filled(ex_pos, ScOrderRequest) ELSE ex_pos
        /\ sc_msg' = IF Announced(filled)
                     THEN Message("opened", delivered) ELSE sc_msg
        /\ sc_outcome' =
               IF filled
               THEN AfterMessage(sendTelegramMessage(delivered), "opened")
               ELSE "rejected"
    /\ sc_pc' = "sleep500"
    /\ sc_oprice' = 0
    /\ UNCHANGED <<cfgVars, obsVars, marginVars, sc_queue, sc_last, sc_symbol, sc_rsi,
                   sc_price, sc_branch, sc_len, sc_active, mgVars>>

ScSleep500 ==
    /\ sc_pc = "sleep500"
    /\ sc_pc' = "next"
    /\ UNCHANGED <<cfgVars, obsVars, marginVars, ex_pos, sc_queue, sc_last, scItem, mgVars>>

ScannerNext ==
    \/ ScStartCycle \/ ScCycleFail \/ ScNext \/ ScSleep60
    \/ ScFetch \/ ScFetchFail \/ ScDecide
    \/ ScCheck \/ ScOpenFail \/ ScBalance \/ ScPrice \/ ScOrder \/ ScSleep500

\* -------------------------------------------------- Position Manager
\* A record of positionData.  Its unRealizedProfit and isolatedWallet are part
\* of the same response; nothing reads them before the record's own iteration,
\* so the model draws them there (mg_quote) and keeps them for the iteration.
NoQuote == [unRealizedProfit |-> 0, isolatedWallet |-> Absent, drawn |-> FALSE]

Quote(upnl, wallet) ==
    [unRealizedProfit |-> upnl, isolatedWallet |-> wallet, drawn |-> TRUE]

WithQuote(r, q) ==
    [symbol |-> r.symbol, positionSide |-> r.positionSide,
     positionAmt |-> r.positionAmt,
     unRealizedProfit |-> q.unRealizedProfit, isolatedWallet |-> q.isolatedWallet]

\* Mutant: only the first open position is kept.
OpenPositions_FirstOnly(pos) ==
    LET open == SelectSeq(SlotSeq, LAMBDA s : pos[s] # 0) IN
    [i \in 1 .. Min(1, Len(open)) |->
        [symbol |-> open[i][1], positionSide |-> open[i][2],
         positionAmt |-> pos[open[i]]]]

\* positionData.filter(p => Number(p.positionAmt) !== 0)
OpenPositions(pos) ==
    LET open == SelectSeq(SlotSeq, LAMBDA s : pos[s] # 0) IN
    [i \in 1 .. Len(open) |->
        [symbol |-> open[i][1], positionSide |-> open[i][2],
         positionAmt |-> pos[open[i]]]]

\* Mutant: the profit test made strict.
ShouldClose_Strict(position) ==
    /\ GreaterEq(Number(Field(position.unRealizedProfit)),
                 TimesProfit(Number(position.isolatedWallet)))
    /\ Number(Field(position.unRealizedProfit)) #
           TimesProfit(Number(position.isolatedWallet))

ShouldClose(position) ==
    GreaterEq(Number(Field(position.unRealizedProfit)),
              TimesProfit(Number(position.isolatedWallet)))

OppositeSide(positionSide) == IF positionSide = "LONG" THEN "SELL" ELSE "BUY"

Abs(n) == IF n < 0 THEN -n ELSE n

CurrentPosition == WithQuote(Head(mg_list), mg_quote)

MgPoll ==
    /\ mg_pc = "poll"
    /\ mg_list' = OpenPositions(ex_pos)
    /\ mg_pc' = IF OpenPositions(ex_pos) = <<>> THEN "sleep10" ELSE "item"
    /\ mg_quote' = NoQuote
    /\ mg_closeReq' = FALSE
    /\ mg_order' = NoOrder
    /\ mg_outcome' = "none"
    /\ mg_msg' = NoMessage
    /\ UNCHANGED <<cfgVars, obsVars, marginVars, ex_pos, scVars>>

\* futuresPositionRisk() throws: the outer catch logs and sleeps 5 s.
MgPollFail ==
    /\ mg_pc = "poll"
    /\ mg_pc' = "sleep5"
    /\ mg_outcome' = "pollerror"
    /\ UNCHANGED <<cfgVars, obsVars, marginVars, ex_pos, scVars, mg_list, mg_quote, mg_closeReq, mg_order,
                   mg_msg>>

MgSleep ==
    /\ mg_pc \in {"sleep10", "sleep5"}
    /\ mg_pc' = "poll"
    /\ UNCHANGED <<cfgVars, obsVars, marginVars, ex_pos, scVars, mg_list, mg_quote, mg_closeReq, mg_order,
                   mg_outcome, mg_msg>>

\* The classification printed with the funding rate ('Profitable: YES / NO').
Profitable(positionSide, fundingRate) ==
    \/ positionSide = "LONG" /\ fundingRate.rate < 0
    \/ positionSide = "SHORT" /\ fundingRate.rate > 0

\* Mutant: a position is closed only while its funding is not profitable.
ExitDecision_FundingGated(position, fundingRate) ==
    /\ ShouldClose(position)
    /\ ~(fundingRate.fetched /\ Profitable(position.positionSide, fundingRate))

\* The profit test of the loop body: fundingRate is in scope, and printed, but
\* the test reads the position alone.
ExitDecision(position, fundingRate) == ShouldClose(position)

\* One position of the cycle: the funding rate is fetched and printed, then the
\* exclusion list and the profit test.
MgItemWith(fundingRate) ==
    /\ mg_pc = "item"
    /\ \E upnl \in ProfitSamples, wallet \in WalletSamples :
        LET position == WithQuote(Head(mg_list), Quote(upnl, wallet)) IN
        /\ mg_quote' = Quote(upnl, wallet)
        /\ IF position.symbol \in excludedSymbols
           THEN /\ mg_outcome' = "excluded"
                /\ mg_closeReq' = FALSE
                /\ mg_pc' = "sleep3"
           ELSE IF ExitDecision(position, fundingRate)
                THEN /\ mg_closeReq' = TRUE
                     /\ mg_outcome' = "none"
                     /\ mg_pc' = "closeprice"
                ELSE /\ mg_closeReq' = FALSE
                     /\ mg_outcome' = "noaction"
                     /\ mg_pc' = "sleep3"
    /\ UNCHANGED <<cfgVars, marginVars, ex_pos, scVars, mg_list, mg_order, mg_msg>>

MgItem ==
    /\ \E fundingRate \in FundingSamples : MgItemWith(fundingRate)
    /\ UNCHANGED obsVars

\* closePosition: getMarketPrice returns.
MgClosePrice ==
    /\ mg_pc = "closeprice"
    /\ mg_pc' = "closeorder"
    /\ UNCHANGED <<cfgVars, obsVars, marginVars, ex_pos, scVars, mg_list, mg_quote, mg_closeReq, mg_order,
                   mg_outcome, mg_msg>>

\* closePosition: getMarketPrice throws, closePosition rethrows, the item's catch.
MgClosePriceFail ==
    /\ mg_pc = "closeprice"
    /\ mg_outcome' = "error"
    /\ mg_pc' = ItemCatch("sleep3", "sleep5")
    /\ UNCHANGED <<cfgVars, obsVars, marginVars, ex_pos, scVars, mg_list, mg_quote, mg_closeReq, mg_order,
                   mg_msg>>

MgOrderRequest ==
    [symbol |-> CurrentPosition.symbol,
     side |-> OppositeSide(CurrentPosition.positionSide),
     qty |-> Abs(CurrentPosition.positionAmt),
     positionSide |-> CurrentPosition.positionSide]

\* futuresMarketBuy / futuresMarketSell: sent; the exchange fills or rejects.
\* A filled order is announced ('Position closed') and returned; a rejection
\* throws, closePosition rethrows it and the item's catch logs it.
MgCloseOrder ==
    /\ mg_pc = "closeorder"
    /\ mg_order' = MgOrderRequest
    /\ \E accepted \in BOOLEAN, delivered \in BOOLEAN :
        LET filled == accepted /\ Fillable(ex_pos, MgOrderRequest) IN
        /\ ex_pos' = IF filled THEN Filled(ex_pos, MgOrderRequest) ELSE ex_pos
        /\ mg_msg' = IF Announced(filled)
                     THEN Message("closed", delivered) ELSE mg_msg
        /\ mg_outcome' =
               IF filled
               THEN AfterMessage(sendTelegramMessage(delivered), "closed")
               ELSE "rejected"
        /\ mg_pc' = IF filled THEN "sleep3" ELSE ItemCatch("sleep3", "sleep5")
    /\ UNCHANGED <<cfgVars, obsVars, marginVars, scVars, mg_list, mg_quote,
                   mg_closeReq>>

\* sleep(3000), then the next position of the list or the next poll.
MgSleep3 ==
    /\ mg_pc = "sleep3"
    /\ mg_list' = Tail(mg_list)
    /\ mg_pc' = IF Tail(mg_list) = <<>> THEN "poll" ELSE "item"
    /\ mg_quote' = NoQuote
    /\ mg_closeReq' = FALSE
    /\ mg_order' = NoOrder
    /\ mg_outcome' = "none"
    /\ mg_msg' = NoMessage
    /\ UNCHANGED <<cfgVars, obsVars, marginVars, ex_pos, scVars>>

\* ------------------------------------------------------ margin top-up
NoRequest == [symbol |-> -1, positionSide |-> "none", amount |-> NaN]

\* Mutant: the request of line 381 sent.
PositionMargin_Sent(symbol, positionSide, amount) ==
    [symbol |-> symbol, positionSide |-> positionSide, amount |-> amount]

\* binance.fapiPrivatePostPositionMargin(params): the call is commented out,
\* nothing is sent.
PositionMargin(symbol, positionSide, amount) == NoRequest

NoTopUp ==
    [called |-> FALSE, isolatedWallet |-> Absent, usdtBalance |-> 0,
     outcome |-> "none", amountForSupport |-> NaN, request |-> NoRequest]

TopUp(position, usdtBalance, outcome, amount, request) ==
    [called |-> TRUE, isolatedWallet |-> position.isolatedWallet,
     usdtBalance |-> usdtBalance, outcome |-> outcome,
     amountForSupport |-> amount, request |-> request]

\* addMarginToPosition: the amount is isolatedWallet * supportPerPosition; the
\* routine throws into its own catch for a wallet of '0', for a balance below
\* the amount and when the position-mode fetch fails, and otherwise logs
\* 'Margin added' and sends the message.
addMarginToPosition(position, usdtBalance, modeFetched) ==
    LET amountForSupport == TimesSupport(Number(position.isolatedWallet)) IN
    IF position.isolatedWallet = Field(0)
    THEN TopUp(position, usdtBalance, "notisolated", NaN, NoRequest)
    ELSE IF Less(Num(usdtBalance), amountForSupport)
         THEN TopUp(position, usdtBalance, "insufficient", amountForSupport,
                    NoRequest)
         ELSE IF ~modeFetched
              THEN TopUp(position, usdtBalance, "error", amountForSupport,
                         NoRequest)
              ELSE TopUp(position, usdtBalance, "added", amountForSupport,
                         PositionMargin(position.symbol, position.positionSide,
                                        amountForSupport))

\* addMarginToPosition run on a record of an open position.  No statement of
\* the script calls it; TopUpSpec runs it next to the monitoring loop.
AddMarginCall ==
    /\ \E s \in ActiveSlots(ex_pos), wallet \in WalletSamples,
          usdtBalance \in TopUpBalanceSamples, modeFetched \in BOOLEAN :
        LET position == [symbol |-> s[1], positionSide |-> s[2],
                         positionAmt |-> ex_pos[s], isolatedWallet |-> wallet]
            result == addMarginToPosition(position, usdtBalance, modeFetched)
        IN /\ mg_topup' = result
           /\ ex_marginReq' = result.request
    /\ UNCHANGED <<cfgVars, obsVars, ex_pos, scVars, mgVars>>

ManagerNext ==
    \/ MgPoll \/ MgPollFail \/ MgSleep \/ MgItem
    \/ MgClosePrice \/ MgClosePriceFail \/ MgCloseOrder \/ MgSleep3

\* ------------------------------------------------------ specification
\* The positions an account can hold when the scripts start: at most n, signed
\* as their side requires, all of one position mode (hedge: LONG and SHORT,
\* one-way: BOTH).
InitPositionsUpTo(n) ==
    {p \in [Slots -> {0} \cup InitAmounts \cup {-a : a \in InitAmounts}] :
        /\ Cardinality({s \in Slots : p[s] # 0}) <= n
        /\ \A s \in Slots : (s[2] = "LONG" => p[s] >= 0) /\ (s[2] = "SHORT" => p[s] <= 0)
        /\ \/ \A s \in Slots : p[s] # 0 => s[2] = "BOTH"
           \/ \A s \in Slots : p[s] # 0 => s[2] # "BOTH"}

InitLocals ==
    /\ sc_queue = <<>>
    /\ sc_symbol = 0
    /\ sc_rsi = 0
    /\ sc_price = 0
    /\ sc_branch = "none"
    /\ sc_len = -1
    /\ sc_active = -1
    /\ sc_oprice = 0
    /\ sc_order = NoOrder
    /\ sc_outcome = "none"
    /\ sc_msg = NoMessage
    /\ sc_last = "started"
    /\ mg_list = <<>>
    /\ mg_quote = NoQuote
    /\ mg_closeReq = FALSE
    /\ mg_order = NoOrder
    /\ mg_outcome = "none"
    /\ mg_msg = NoMessage
    /\ sc_seen = NotSeen
    /\ mg_seen = NotSeen
    /\ mg_topup = NoTopUp
    /\ ex_marginReq = NoRequest

\* Both scripts started: each at the top of its while loop.
InitLocal ==
    /\ sc_pc = "cycle"
    /\ mg_pc = "poll"
    /\ InitLocals

Init ==
    /\ LONG \in BOOLEAN
    /\ SHORT \in BOOLEAN
    /\ ex_pos \in InitPositionsUpTo(MAX_ACTIVE_POSITIONS)
    /\ InitLocal

Next == ScannerNext \/ ManagerNext

Spec == Init /\ [][Next]_vars

\* The manager's loop keeps running (weak fairness of its steps) and the
\* position poll, retried after each failure, succeeds again and again.
ManagerFairness ==
    /\ WF_vars(ManagerNext)
    /\ SF_vars(MgPoll)

\* The account may hold positions opened by hand before the scripts start.
InitLive ==
    /\ LONG = FALSE
    /\ SHORT = TRUE
    /\ ex_pos \in InitPositionsUpTo(MaxInitPositions)
    /\ InitLocal

\* The Position Manager on its own, as `node binance_support_close.js` runs it.
LiveSpec == InitLive /\ [][ManagerNext]_vars /\ ManagerFairness

\* A manual trade, or another program on the same account, opens a position
\* in an empty slot, at any moment.
ExtOpen ==
    /\ ActiveCount(ex_pos) < MaxOpenPositions
    /\ \E s \in Slots, a \in InitAmounts \cup {-b : b \in InitAmounts} :
        /\ ex_pos[s] = 0
        /\ (s[2] = "LONG" => a > 0) /\ (s[2] = "SHORT" => a < 0)
        /\ \A t \in ActiveSlots(ex_pos) : (t[2] = "BOTH") <=> (s[2] = "BOTH")
        /\ ex_pos' = [ex_pos EXCEPT ![s] = a]
    /\ UNCHANGED <<cfgVars, obsVars, marginVars, scVars, mgVars>>

\* The Entry Scanner started alone on an account that is also traded from
\* outside.
InitExt ==
    /\ LONG \in BOOLEAN
    /\ SHORT \in BOOLEAN
    /\ ex_pos \in InitPositionsUpTo(MAX_ACTIVE_POSITIONS)
    /\ sc_pc = "cycle"
    /\ mg_pc = "off"
    /\ InitLocals

SpecExt == InitExt /\ [][ScannerNext \/ ExtOpen]_vars

\* The Position Manager, and addMarginToPosition run beside it.
TopUpSpec == InitLive /\ [][ManagerNext \/ AddMarginCall]_vars

\* The same two processes with the history variables recorded: the iteration's
\* funding rate and the outcome of the open-position check are written to
\* sc_seen and mg_seen when they are drawn.
ScDecideObs ==
    \E fetched \in BOOLEAN, fundingRate \in FundingSamples :
        /\ ScDecideWith(fetched, fundingRate)
        /\ sc_seen' = Seen(fundingRate, fetched)
        /\ UNCHANGED mg_seen

MgItemObs ==
    \E fundingRate \in FundingSamples :
        /\ MgItemWith(fundingRate)
        /\ mg_seen' = Seen(fundingRate, TRUE)
        /\ UNCHANGED sc_seen

ScannerObsNext ==
    \/ ScStartCycle \/ ScCycleFail \/ ScNext \/ ScSleep60
    \/ ScFetch \/ ScFetchFail \/ ScDecideObs
    \/ ScCheck \/ ScOpenFail \/ ScBalance \/ ScPrice \/ ScOrder \/ ScSleep500

ManagerObsNext ==
    \/ MgPoll \/ MgPollFail \/ MgSleep \/ MgItemObs
    \/ MgClosePrice \/ MgClosePriceFail \/ MgCloseOrder \/ MgSleep3

\* One of the two scripts started alone, the other not running ("off").
InitSolo ==
    /\ LONG \in BOOLEAN
    /\ SHORT \in BOOLEAN
    /\ InitLocals
    /\ \/ /\ sc_pc = "cycle"
          /\ mg_pc = "off"
          /\ ex_pos \in InitPositionsUpTo(MAX_ACTIVE_POSITIONS)
       \/ /\ sc_pc = "off"
          /\ mg_pc = "poll"
          /\ ex_pos \in InitPositionsUpTo(MaxInitPositions)

ObsSpec == InitSolo /\ [][ScannerObsNext \/ ManagerObsNext]_vars

\* ============================================================ claims
\* The scanner has evaluated the entry rule for sc_symbol in this iteration.
ScDecided == sc_pc \in {"check", "balance", "price", "order", "sleep500"}

\* openPosition has read the position list in this iteration.
ScChecked == sc_active >= 0

\* The manager has evaluated the exit rule for the position at the head of its list.
MgDecided == mg_pc \in {"closeprice", "closeorder", "sleep3"}

\* C1: when the exchange reports MAX_ACTIVE_POSITIONS or more non-zero positions
\* at openPosition's check, openPosition returns without sending an order,
\* whatever the RSI, the price and the symbol.
C1_MaxPositionsDominates ==
    (ScChecked /\ sc_active >= MAX_ACTIVE_POSITIONS) =>
        /\ sc_order = NoOrder
        /\ sc_outcome = "maxreached"
        /\ sc_pc \notin {"balance", "price", "order"}

C1_Witness ==
    /\ ScChecked
    /\ sc_active >= MAX_ACTIVE_POSITIONS
    /\ sc_rsi >= SELL_RSI_THRESHOLD
    /\ sc_price < PriceCeiling
    /\ sc_branch = "sell"
    /\ sc_outcome = "maxreached"

\* C2: with fewer than MAX_ACTIVE_POSITIONS non-zero positions at the check,
\* rsi >= SELL_RSI_THRESHOLD, price below the ceiling and SHORT enabled, the
\* iteration sends a sell order with position side SHORT for the symbol (every
\* fetch having succeeded and the balance being sufficient).
C2_OpenShort ==
    ( /\ sc_pc = "sleep500"
      /\ ScChecked
      /\ sc_active < MAX_ACTIVE_POSITIONS
      /\ sc_rsi >= SELL_RSI_THRESHOLD
      /\ sc_price < PriceCeiling
      /\ SHORT
      /\ sc_outcome \notin {"error", "insufficient"} ) =>
        /\ sc_order.symbol = sc_symbol
        /\ sc_order.side = "sell"
        /\ sc_order.positionSide = "SHORT"

\* C3: for a polled position outside the exclusion list whose record carries an
\* isolated wallet, closePosition is called in the cycle exactly when
\* unRealizedProfit >= isolatedWallet * profit.
C3_ExitRule ==
    ( /\ MgDecided
      /\ CurrentPosition.symbol \notin excludedSymbols
      /\ CurrentPosition.isolatedWallet.present ) =>
        ( mg_closeReq <=>
            CurrentPosition.unRealizedProfit * 100
                >= CurrentPosition.isolatedWallet.v * profit )

C3_Witness ==
    /\ MgDecided
    /\ CurrentPosition.isolatedWallet = Field(10000)
    /\ CurrentPosition.unRealizedProfit = 350
    /\ mg_closeReq

\* C4: with only the scanner and the manager trading, the number of non-zero
\* positions never exceeds MAX_ACTIVE_POSITIONS.
C4_SinglePosition == ActiveCount(ex_pos) <= MAX_ACTIVE_POSITIONS

C4_Witness ==
    /\ sc_outcome = "opened"
    /\ sc_active = 0
    /\ ex_pos[<<sc_symbol, "SHORT">>] < 0
    /\ ActiveCount(ex_pos) = MAX_ACTIVE_POSITIONS

\* C5: with 0 < rsi < BUY_RSI_THRESHOLD, price below the ceiling, LONG enabled
\* and the position check passed, the order sent is a buy with position side LONG.
C5_OpenLong ==
    ( /\ sc_pc = "sleep500"
      /\ ScChecked
      /\ sc_active < MAX_ACTIVE_POSITIONS
      /\ ~MaxReached(sc_len)
      /\ sc_rsi > 0
      /\ sc_rsi < BUY_RSI_THRESHOLD
      /\ sc_rsi < SELL_RSI_THRESHOLD
      /\ sc_price < PriceCeiling
      /\ LONG
      /\ sc_outcome \notin {"error", "insufficient"} ) =>
        /\ sc_order.symbol = sc_symbol
        /\ sc_order.side = "buy"
        /\ sc_order.positionSide = "LONG"

\* C6 as stated: the long entry is chosen only for rsi < BUY_RSI_THRESHOLD.
C6_StrictBound == sc_branch = "buy" => sc_rsi < BUY_RSI_THRESHOLD

\* C6 amended: the long entry is chosen only for 0 < rsi <= BUY_RSI_THRESHOLD,
\* and rsi = BUY_RSI_THRESHOLD (price below the ceiling, LONG enabled) chooses it.
C6_InclusiveBound ==
    /\ sc_branch = "buy" => (sc_rsi > 0 /\ sc_rsi <= BUY_RSI_THRESHOLD)
    /\ sc_order.side = "buy" => (sc_rsi > 0 /\ sc_rsi <= BUY_RSI_THRESHOLD)
    /\ ( /\ ScDecided
         /\ sc_rsi = BUY_RSI_THRESHOLD
         /\ sc_price < PriceCeiling
         /\ LONG ) => sc_branch = "buy"

C6_Witness ==
    /\ ScDecided
    /\ sc_rsi = BUY_RSI_THRESHOLD
    /\ sc_branch = "buy"
    /\ sc_order.side = "buy"

\* C7: an rsi <= 0 never chooses the long entry and never sends a buy order.
C7_ZeroRsiNeverLong ==
    (ScDecided /\ sc_rsi <= 0) =>
        /\ sc_branch # "buy"
        /\ sc_order.side # "buy"

C7_Witness ==
    /\ ScDecided
    /\ sc_rsi = 0
    /\ sc_price < PriceCeiling
    /\ LONG
    /\ sc_branch = "none"
    /\ sc_outcome = "noaction"

\* C8: a price at or above the ceiling chooses no entry and sends no order,
\* whatever the rsi.
C8_PriceCeiling ==
    (ScDecided /\ sc_price >= PriceCeiling) =>
        /\ sc_branch = "none"
        /\ sc_order = NoOrder
        /\ sc_outcome = "noaction"

C8_Witness ==
    /\ ScDecided
    /\ sc_price >= PriceCeiling
    /\ sc_rsi >= SELL_RSI_THRESHOLD
    /\ SHORT
    /\ sc_outcome = "noaction"

\* C9 as stated: with the isolated wallet zero or absent, closePosition is
\* called exactly when unRealizedProfit >= 0.
C9_MissingMargin ==
    ( /\ MgDecided
      /\ CurrentPosition.symbol \notin excludedSymbols
      /\ CurrentPosition.isolatedWallet \in {Absent, Field(0)} ) =>
        (mg_closeReq <=> CurrentPosition.unRealizedProfit >= 0)

\* C9 amended: with the isolated wallet zero, closePosition is called exactly
\* when unRealizedProfit >= 0; with it absent, closePosition is never called.
C9_ZeroOrAbsentMargin ==
    ( /\ MgDecided
      /\ CurrentPosition.symbol \notin excludedSymbols ) =>
        /\ CurrentPosition.isolatedWallet = Field(0) =>
              (mg_closeReq <=> CurrentPosition.unRealizedProfit >= 0)
        /\ CurrentPosition.isolatedWallet = Absent => ~mg_closeReq

C9_Witness ==
    /\ MgDecided
    /\ CurrentPosition.isolatedWallet = Absent
    /\ CurrentPosition.unRealizedProfit > 0
    /\ ~mg_closeReq

\* The position in slot s is open, is not excluded, and the profit and wallet
\* the manager reads for it meet the profit target.
Favourable(s) ==
    /\ ex_pos[s] # 0
    /\ s[1] \notin excludedSymbols
    /\ ( /\ mg_quote.drawn
         /\ Head(mg_list).symbol = s[1]
         /\ Head(mg_list).positionSide = s[2] ) =>
            /\ mg_quote.isolatedWallet.present
            /\ mg_quote.unRealizedProfit * 100 >= mg_quote.isolatedWallet.v * profit

\* The manager has sent a close order for the position in slot s.
CloseSent(s) ==
    /\ mg_order # NoOrder
    /\ mg_order.symbol = s[1]
    /\ mg_order.positionSide = s[2]

\* closePosition's price fetch succeeds for the position in slot s.
MgClosePriceOf(s) ==
    /\ MgClosePrice
    /\ Head(mg_list).symbol = s[1]
    /\ Head(mg_list).positionSide = s[2]

\* C10: under the fairness of the manager's loop, and if the price fetch made
\* for a position succeeds again and again, a position that keeps meeting the
\* profit target gets a close order: from every state where it meets the
\* target, a close order for it is sent unless it stops meeting the target.
C10_EventuallyClosed ==
    \A s \in Slots :
        SF_vars(MgClosePriceOf(s)) =>
            (Favourable(s) ~> (CloseSent(s) \/ ~Favourable(s)))

C10_Witness ==
    \E s \in Slots :
        /\ Favourable(s)
        /\ CloseSent(s)
        /\ Len(mg_list) = 1
        /\ ActiveCount(ex_pos) = 2

\* A step in which sendTelegramMessage was called and bot.sendMessage failed.
ScMessageFailed == sc_msg' # sc_msg /\ sc_msg' # NoMessage /\ ~sc_msg'.delivered
MgMessageFailed == mg_msg' # mg_msg /\ mg_msg' # NoMessage /\ ~mg_msg'.delivered

C11_Step ==
    /\ ScMessageFailed =>
          /\ sc_outcome' # "error"
          /\ sc_pc' \in {"check", "sleep500"}
          /\ sc_queue' = sc_queue
          /\ sc_msg'.text = "opened" =>
                (sc_outcome' = "opened" /\ sc_order' # NoOrder)
    /\ MgMessageFailed =>
          /\ mg_outcome' = "closed"
          /\ mg_order' # NoOrder
          /\ mg_pc' = "sleep3"
          /\ mg_list' = mg_list

\* C11: a notification that fails never propagates.  In every step where a
\* message is handed to sendTelegramMessage and its delivery fails, the caller
\* goes on as after a delivered one: no error is recorded for the item, an
\* order already placed is still returned (outcome opened / closed), and the
\* loop stays in the same cycle with its remaining items.
C11_NotificationSwallowed == [][C11_Step]_vars

C11_Witness ==
    /\ sc_msg = Message("opened", FALSE)
    /\ sc_outcome = "opened"
    /\ sc_order # NoOrder
    /\ mg_msg = Message("closed", FALSE)
    /\ mg_outcome = "closed"

\* A step in which an error is raised while an item is processed.
ScItemFailed == sc_outcome' # sc_outcome /\ sc_outcome' \in {"error", "rejected"}
MgItemFailed == mg_outcome' # mg_outcome /\ mg_outcome' \in {"error", "rejected"}

C12_Step ==
    /\ ScItemFailed =>
          /\ sc_queue' = sc_queue
          /\ sc_pc' \in {"next", "sleep500"}
    /\ sc_queue' # sc_queue =>
          \/ sc_pc = "cycle"
          \/ sc_pc = "next" /\ sc_queue' = Tail(sc_queue)
    /\ (sc_pc' = "cycle" /\ sc_pc # "cycle") =>
          (sc_pc = "sleep60" /\ sc_queue = <<>>)
    /\ MgItemFailed =>
          /\ mg_list' = mg_list
          /\ mg_pc' = "sleep3"
    /\ mg_list' # mg_list =>
          \/ mg_pc = "poll"
          \/ mg_pc = "sleep3" /\ mg_list' = Tail(mg_list)
    /\ (mg_pc' \in {"poll", "sleep5", "sleep10"} /\ mg_pc \in {"item", "closeprice", "closeorder", "sleep3"}) =>
          (mg_pc = "sleep3" /\ Tail(mg_list) = <<>>)

C13_FundingDisplayOnly ==
    /\ (MgDecided /\ mg_seen.seen) =>
          /\ \A f \in FundingSamples :
                mg_closeReq = ( /\ CurrentPosition.symbol \notin excludedSymbols
                                /\ ExitDecision(CurrentPosition, f) )
          /\ mg_order # NoOrder => mg_order = MgOrderRequest
    /\ (ScDecided /\ sc_seen.seen) =>
          \A f \in FundingSamples :
              sc_branch = EntryDecision(sc_rsi, sc_price, f)

C13_Witness ==
    /\ MgDecided
    /\ mg_seen = Seen(NoFunding, TRUE)
    /\ CurrentPosition.positionSide = "SHORT"
    /\ mg_closeReq
    /\ mg_order = MgOrderRequest
    /\ mg_outcome = "closed"

\* C14: the margin top-up stays dormant.  No margin request ever reaches the
\* exchange; no step of the monitoring loop runs the top-up routine or sends a
\* margin request; and the routine, run on a position whose isolated wallet is
\* present and not zero, only computes isolatedWallet * supportPerPosition: it
\* is rejected when the balance is below that amount and otherwise reports the
\* amount without sending it.
C14_TopUpDormant ==
    /\ [](ex_marginReq = NoRequest)
    /\ [][ManagerNext => UNCHANGED marginVars]_vars
    /\ []( ( /\ mg_topup.called
             /\ mg_topup.isolatedWallet.present
             /\ mg_topup.isolatedWallet.v > 0 ) =>
           /\ mg_topup.amountForSupport.v * 100
                  = mg_topup.isolatedWallet.v * supportPerPosition
           /\ mg_topup.request = NoRequest
           /\ (mg_topup.usdtBalance < mg_topup.amountForSupport.v)
                  <=> (mg_topup.outcome = "insufficient")
           /\ mg_topup.outcome \in {"insufficient", "error", "added"} )

C14_Witness ==
    /\ mg_topup.called
    /\ mg_topup.isolatedWallet = Field(10000)
    /\ mg_topup.outcome = "added"
    /\ mg_topup.amountForSupport = Num(1000)
    /\ ex_marginReq = NoRequest
    /\ mg_pc = "sleep3"
    /\ mg_outcome = "noaction"

\* The funding-rate fetch or the open-position check of the iteration failed.
ScToleratedFailure ==
    /\ sc_seen.seen
    /\ ~sc_seen.fundingRate.fetched \/ ~sc_seen.fetched

\* C15 as stated: when any fetch made for the symbol fails, the funding-rate
\* fetch and the open-position check included, no order is placed for it.
C15_AnyFailureSkips ==
    /\ sc_outcome = "error" => sc_order = NoOrder
    /\ (ScDecided /\ ScToleratedFailure) => sc_order = NoOrder

\* C15 amended: a failed RSI, candle or price fetch, or a failed fetch inside
\* openPosition, ends the iteration with no order placed.  A failed
\* funding-rate fetch or open-position check does not skip the symbol: the
\* entry rule is evaluated as the RSI and the price give it, and the iteration
\* goes on into openPosition when an entry is chosen.
C15_HardFailureSkips ==
    /\ sc_outcome = "error" =>
          (sc_order = NoOrder /\ sc_pc \in {"next", "sleep500"})
    /\ (ScDecided /\ ScToleratedFailure) =>
          /\ sc_branch = EntryBranch(sc_rsi, sc_price)
          /\ sc_branch # "none" => sc_outcome # "noaction"

C15_Witness ==
    /\ ScDecided
    /\ sc_seen = Seen(NoFunding, FALSE)
    /\ sc_outcome = "opened"
    /\ sc_order = [symbol |-> sc_symbol, side |-> "sell", qty |-> 30,
                   positionSide |-> "SHORT"]
    /\ ex_pos[<<sc_symbol, "SHORT">>] = -30

C16_Step ==
    /\ (ScStartCycle \/ ScCycleFail) => sc_last # "error"
    /\ MgPollFail => mg_pc' \in {"sleep5", "sleep10"}
    /\ (MgPoll \/ MgPollFail) => mg_pc = "poll"

\* C16: in both processes an error caught by the outer loop is followed by a
\* sleep before the next cycle's first exchange request.  The scanner never
\* makes the first request of a cycle (balance, exchange info) straight after
\* the outer catch, and the manager's outer catch leads to a sleep from which
\* alone the next poll starts.
C16_DelayBeforeRetry == [][C16_Step]_vars

C17_Step ==
    /\ sc_order' # sc_order => (sc_order = NoOrder \/ sc_order' = NoOrder)
    /\ (sc_outcome' = "rejected" /\ sc_outcome # "rejected") =>
          /\ sc_order' # NoOrder
          /\ ex_pos' = ex_pos
          /\ sc_msg' = sc_msg
    /\ sc_outcome = "rejected" =>
          /\ sc_order' \in {sc_order, NoOrder}
          /\ sc_msg'.text # "opened"
          /\ ScannerNext => ex_pos' = ex_pos
    /\ mg_order' # mg_order => (mg_order = NoOrder \/ mg_order' = NoOrder)
    /\ (mg_outcome' = "rejected" /\ mg_outcome # "rejected") =>
          /\ mg_order' # NoOrder
          /\ ex_pos' = ex_pos
          /\ mg_msg' = mg_msg
    /\ mg_outcome = "rejected" =>
          /\ mg_order' \in {mg_order, NoOrder}
          /\ mg_msg'.text # "closed"
          /\ ManagerNext => ex_pos' = ex_pos

\* C17: a rejected order is not retried within the cycle.  An iteration sends
\* at most one order (the order of an item is set once and cleared only when
\* the item ends); the step in which the exchange rejects it leaves the
\* positions as they were and sends no message; and from then until the item
\* ends the process sends no second order and no 'Position opened' /
\* 'Position closed' message and leaves the positions unchanged.
C17_NoRetry == [][C17_Step]_vars

C17_Witness ==
    /\ sc_outcome = "rejected"
    /\ sc_order # NoOrder
    /\ sc_msg.text = "signal"
    /\ sc_pc = "next"
    /\ sc_queue # <<>>
    /\ ActiveCount(ex_pos) = 0

\* C18: the single-position check is not atomic.  With an external actor
\* trading on the account, every order the scanner sends still follows, in the
\* same iteration, a read that listed fewer than MAX_ACTIVE_POSITIONS
\* positions (the best-effort bound); the number of open positions itself is
\* not bounded by it: C18_Witness is a reachable state with more than
\* MAX_ACTIVE_POSITIONS open positions, the external ones opened between the
\* scanner's check and its order.
C18_BestEffortBound ==
    sc_order # NoOrder =>
        /\ ScChecked
        /\ sc_len < MAX_ACTIVE_POSITIONS
        /\ sc_active < MAX_ACTIVE_POSITIONS

\* The scanner read an empty position list, and its order was filled when the
\* account already held MaxOpenPositions positions: ExtOpen stops at that
\* number, so they were opened after the read and the scanner's fill came last.
C18_Witness ==
    /\ sc_outcome = "opened"
    /\ sc_active = 0
    /\ sc_len = 0
    /\ ex_pos[<<sc_symbol, "SHORT">>] < 0
    /\ ActiveCount(ex_pos) > MAX_ACTIVE_POSITIONS
    /\ ActiveCount(ex_pos) > MaxOpenPositions

\* C19: a close order always reduces the position it closes.  For the polled
\* position the manager is closing, whatever its positionSide label, the
\* order sent has quantity |positionAmt| and the side opposite to the sign of
\* the size (SELL for a positive size, BUY for a negative one), and a filled
\* order brings the size to zero: it never increases or flips the exposure.
C19_CloseReduces ==
    mg_order # NoOrder =>
        LET amt == Head(mg_list).positionAmt
            s == <<Head(mg_list).symbol, Head(mg_list).positionSide>>
        IN /\ mg_order.qty = Abs(amt)
           /\ mg_order.side = IF amt > 0 THEN "SELL" ELSE "BUY"
           /\ mg_outcome = "closed" => ex_pos[s] = 0
           /\ Abs(ex_pos[s]) <= Abs(amt)

====
